---- MODULE Spec2Model ----
(***************************************************************************)
(* A model of src/src/node_snapshotable.cc: the snapshot builder           *)
(* (SnapshotBuilder::Generate and FormatBlob), the internal-field codec    *)
(* (SerializeNodeContextInternalFields / DeserializeNodeInternalFields)    *)
(* and the binding serializer (SerializeBindingData).                      *)
(*                                                                         *)
(* Three specifications share the module's variables:                      *)
(*   Spec        one call of the string-returning SnapshotBuilder::Generate*)
(*   SpecCodec   one build pass of the internal-field serializer followed   *)
(*               by one restore pass of the deserializer                   *)
(*   SpecBinding one call of SerializeBindingData                          *)
(* A fatal exit (abort(), a failed CHECK, UNREACHABLE(), ToLocalChecked on *)
(* an empty handle) is recorded as the source line it happens at.          *)
(***************************************************************************)
EXTENDS Integers, Sequences, FiniteSets, TLC

\* ------------------------------------------------------------------ bounds
MaxHandles == 2
MaxReqs == 1
MaxBlob == 2
MaxIndices == 2
NumHolders == 2
NumFields == 2
MaxLen == 2
MaxForeign == 2
MaxBindings == 3
MaxStore == 1

\* ------------------------------------------------------- program constants
kNodeContextIndex == 0
kSlot == 1

VARIABLES
  \* SnapshotBuilder::Generate
  pc,                  \* the statement Generate is about to execute
  build_snapshot,      \* per_process::cli_options->build_snapshot
  debug_mksnapshot,    \* enabled_debug_list.enabled(DebugCategory::MKSNAPSHOT)
  registered,          \* number of isolates registered with the platform
  req_wrap_queue,      \* env->req_wrap_queue()
  handle_wrap_queue,   \* env->handle_wrap_queue()
  bootstrapCatch,      \* HasCaught() of the TryCatch of lines 163-181
  err,                 \* what was written to stderr, in order
  abortAt,             \* 0, or the source line of the fatal exit
  out,                 \* the SnapshotData being filled
  result,              \* the string Generate returned, or NoResult
  openAtSerialization, \* observed: a wrap queue was non-empty when
                       \* env->Serialize, AddContext or CreateBlob ran
  pendingAfterDrain,   \* observed: handle_wrap_queue when SpinEventLoop returned
  spinResult,          \* the Maybe<int> SpinEventLoop returned (line 176)
  calls,               \* the calls Generate has made, in order
  \* internal-field codec
  phase,               \* "build", "restore" or "fatal"
  slots,               \* build time: what each holder's kSlot field points to
  cursor,              \* the position of the next internal field the engine visits
  fields,              \* per visited field: holder, index and the StartupData
  foreign,             \* the blob restored comes from another build
  rslots,              \* restore time: the holders' internal fields
  deserialize_requests,\* env->EnqueueDeserializeRequest queue
  codecAbortAt,        \* 0, or the source line of the fatal exit
  \* SerializeBindingData
  bindingKeys,         \* the keys ForEachBindingData enumerates, in order
  pos,                 \* the position of the next binding to visit
  i,                   \* the lambda's captured counter
  info_bindings,       \* info->bindings
  storeNext,           \* the index the store assigns to the next AddData
  addDataCalls,        \* per AddData call: the binding position and the index
  hookCalls,           \* positions whose PrepareForSerialization ran, in order
  bindAbortAt,         \* 0, or the source line of the fatal exit
  bindEvents           \* what SerializeBindingData did, in order

genVars == <<pc, build_snapshot, debug_mksnapshot, registered, req_wrap_queue,
             handle_wrap_queue, bootstrapCatch, err, abortAt, out, result,
             openAtSerialization, pendingAfterDrain, spinResult, calls>>
codecVars == <<phase, slots, cursor, fields, foreign, rslots,
               deserialize_requests, codecAbortAt>>
bindVars == <<bindingKeys, pos, i, info_bindings, storeNext, addDataCalls,
              hookCalls, bindAbortAt, bindEvents>>
vars == <<genVars, codecVars, bindVars>>

\* ------------------------------------------------------------- universes
Handles == 1..MaxHandles
Reqs == 1..MaxReqs
CharValues == {-1, 65}
NoResult == <<"no result">>
Unset == <<"unset">>
NULL == "nullptr"

SeqsUpTo(S, n) == UNION {[1..k -> S] : k \in 0..n}

\* StartupData values CreateBlob can return: bytes, their count, and whether
\* the blob can be rehashed.
Blobs == {[data |-> d, raw_size |-> Len(d), rehashable |-> r] :
            d \in SeqsUpTo(CharValues, MaxBlob), r \in BOOLEAN}

\* The index lists IsolateData::Serialize can return.
IndexLists == {[k \in 1..n |-> k - 1] : n \in 0..MaxIndices}

EnvInfos == {"env_info_0", "env_info_1"}


\* ============================================================ FormatBlob
\* std::to_string of a char or size_t: the decimal digits of its value.
to_string(n) == ToString(n)

\* Mutant: the loop stops one element early.
WriteVector_StopsEarly(vec, size) ==
  LET piece(k) == <<to_string(vec[k + 1]), IF k = size - 1 THEN "\n" ELSE ",">>
      upto[k \in 0..size] == IF k = 0 THEN <<>> ELSE upto[k - 1] \o piece(k - 1)
  IN upto[IF size = 0 THEN 0 ELSE size - 1]

\* WriteVector: every element's decimal rendering, each followed by ','
\* except the last, which is followed by a newline.
WriteVector(vec, size) ==
  LET piece(k) == <<to_string(vec[k + 1]), IF k = size - 1 THEN "\n" ELSE ",">>
      upto[k \in 0..size] == IF k = 0 THEN <<>> ELSE upto[k - 1] \o piece(k - 1)
  IN upto[size]

\* FormatBlob: the generated source text, as the sequence of pieces written
\* to the stream.
FormatBlob(data) ==
  <<"#include <cstddef>\n#include \"env.h\"\n#include \"node_main_instance.h\"\n#include \"v8.h\"\n\n// This file is generated by tools/snapshot. Do not edit.\n\nnamespace node {\n\nstatic const char blob_data[] = {\n">>
  \o WriteVector(data.blob.data, data.blob.raw_size)
  \o <<"};\n\nstatic const int blob_size = ", to_string(data.blob.raw_size),
       ";\n\nSnapshotData snapshot_data {\n  // -- blob begins --\n  { blob_data, blob_size },\n  // -- blob ends --\n  // -- isolate_data_indices begins --\n  {\n">>
  \o WriteVector(data.isolate_data_indices, Len(data.isolate_data_indices))
  \o <<"},\n  // -- isolate_data_indices ends --\n  // -- env_info begins --\n",
       data.env_info,
       "\n  // -- env_info ends --\n};\n\nconst SnapshotData* NodeMainInstance::GetEmbeddedSnapshotData() {\n  return &snapshot_data;\n}\n}  // namespace node\n">>

\* The SnapshotData values FormatBlob can be handed: any bytes, any indices.
FormatInputs ==
  [blob : Blobs,
   isolate_data_indices : SeqsUpTo(0..MaxIndices, MaxIndices),
   env_info : EnvInfos]

\* FormatBlob is about to be called on some SnapshotData.
FormatInit ==
  /\ pc = "FormatBlobCall"
  /\ out \in FormatInputs
  /\ result = NoResult
  /\ build_snapshot = FALSE
  /\ debug_mksnapshot = FALSE
  /\ registered = 0
  /\ req_wrap_queue = {}
  /\ handle_wrap_queue = {}
  /\ bootstrapCatch = FALSE
  /\ err = <<>>
  /\ abortAt = 0
  /\ openAtSerialization = FALSE
  /\ pendingAfterDrain = {}
  /\ spinResult = [has |-> FALSE, v |-> 0]
  /\ calls = <<>>
  /\ phase = "idle"
  /\ slots = <<>>
  /\ cursor = <<>>
  /\ fields = <<>>
  /\ foreign = FALSE
  /\ rslots = <<>>
  /\ deserialize_requests = <<>>
  /\ codecAbortAt = 0
  /\ bindingKeys = <<>>
  /\ pos = 0
  /\ i = 0
  /\ info_bindings = <<>>
  /\ storeNext = 0
  /\ addDataCalls = <<>>
  /\ hookCalls = <<>>
  /\ bindAbortAt = 0
  /\ bindEvents = <<>>

\* One call of FormatBlob(data): data is const, the string is returned.
CallFormatBlob ==
  /\ pc = "FormatBlobCall"
  /\ result' = FormatBlob(out)
  /\ pc' = "formatted"
  /\ UNCHANGED <<build_snapshot, debug_mksnapshot, registered, req_wrap_queue,
                 handle_wrap_queue, bootstrapCatch, err, abortAt, out,
                 openAtSerialization, pendingAfterDrain, spinResult, calls,
                 codecVars, bindVars>>

NextFormat == CallFormatBlob

SpecFormat == FormatInit /\ [][NextFormat]_vars

\* ================================================ SnapshotBuilder::Generate
\* One line written to stderr by a diagnostic function.
Dump(fn, line, hs) == [fn |-> fn, line |-> line, handles |-> hs]

\* Maybe<int>::FromMaybe
FromMaybe(m, default) == IF m.has THEN m.v ELSE default
MaybeInts == {[has |-> FALSE, v |-> 0], [has |-> TRUE, v |-> 0], [has |-> TRUE, v |-> 1]}

\* The process terminates at source line `line`.
Abort(line) == pc' = "aborted" /\ abortAt' = line

Goto(label) == pc' = label /\ abortAt' = abortAt

\* Isolate::Allocate and RegisterIsolate.
Allocate ==
  /\ pc = "Allocate"
  /\ calls' = calls \o <<"Isolate::Allocate", "RegisterIsolate">>
  /\ registered' = registered + 1
  /\ Goto("CreateMainInstance")
  /\ UNCHANGED <<build_snapshot, debug_mksnapshot, spinResult, req_wrap_queue, handle_wrap_queue,
                 bootstrapCatch, err, out, result, openAtSerialization,
                 pendingAfterDrain, codecVars, bindVars>>

\* NodeMainInstance::Create, SetDefaultContext and isolate_data()->Serialize.
CreateMainInstance ==
  /\ pc = "CreateMainInstance"
  /\ calls' = calls \o <<"SnapshotCreator", "NodeMainInstance::Create", "SetDefaultContext",
                      "isolate_data()->Serialize">>
  /\ \E idx \in IndexLists : out' = [out EXCEPT !.isolate_data_indices = idx]
  /\ Goto("NewContext")
  /\ UNCHANGED <<build_snapshot, debug_mksnapshot, spinResult, registered, req_wrap_queue,
                 handle_wrap_queue, bootstrapCatch, err, result,
                 openAtSerialization, pendingAfterDrain, codecVars, bindVars>>

\* The per-context scripts: a caught exception is printed, then abort().
NewContext ==
  /\ pc = "NewContext"
  /\ calls' = Append(calls, "NewContext")
  /\ \E caught \in BOOLEAN :
       IF caught
         THEN /\ err' = Append(err, Dump("PrintCaughtException", 129, {}))
              /\ Abort(130)
         ELSE /\ err' = err
              /\ Goto("NewEnvironment")
  /\ UNCHANGED <<build_snapshot, debug_mksnapshot, spinResult, registered, req_wrap_queue,
                 handle_wrap_queue, bootstrapCatch, out, result,
                 openAtSerialization, pendingAfterDrain, codecVars, bindVars>>

\* new Environment(...): its wrap queues start empty.
NewEnvironment ==
  /\ pc = "NewEnvironment"
  /\ calls' = Append(calls, "new Environment")
  /\ req_wrap_queue' = {}
  /\ handle_wrap_queue' = {}
  /\ Goto("RunBootstrapping")
  /\ UNCHANGED <<build_snapshot, debug_mksnapshot, spinResult, registered, bootstrapCatch, err,
                 out, result, openAtSerialization, pendingAfterDrain,
                 codecVars, bindVars>>

\* env->RunBootstrapping() under a TryCatch: a caught exception is printed
\* (no abort() follows), then result.ToLocalChecked() is fatal on an empty
\* result. The scripts may leave requests and handles open.
RunBootstrapping ==
  /\ pc = "RunBootstrapping"
  /\ calls' = Append(calls, "RunBootstrapping")
  /\ \E caught \in BOOLEAN, empty \in BOOLEAN :
       /\ err' = IF caught THEN Append(err, Dump("PrintCaughtException", 149, {}))
                           ELSE err
       /\ IF empty
            THEN /\ Abort(151)
                 /\ UNCHANGED <<req_wrap_queue, handle_wrap_queue>>
            ELSE /\ Goto(IF build_snapshot THEN "LoadEnvironment"
                                           ELSE "PrintAllBaseObjects")
                 /\ req_wrap_queue' \in SUBSET Reqs
                 /\ handle_wrap_queue' \in SUBSET Handles
  /\ UNCHANGED <<build_snapshot, debug_mksnapshot, spinResult, registered, bootstrapCatch, out,
                 result, openAtSerialization, pendingAfterDrain, codecVars, bindVars>>

\* --build-snapshot: LoadEnvironment under a new TryCatch; a caught exception
\* is printed, ToLocalChecked is fatal on an empty result.
LoadEnvironment ==
  /\ pc = "LoadEnvironment"
  /\ calls' = Append(calls, "LoadEnvironment")
  /\ \E caught \in BOOLEAN, empty \in BOOLEAN :
       /\ bootstrapCatch' = caught
       /\ err' = IF caught THEN Append(err, Dump("PrintCaughtException", 170, {}))
                           ELSE err
       /\ IF empty
            THEN /\ Abort(172)
                 /\ UNCHANGED <<req_wrap_queue, handle_wrap_queue>>
            ELSE /\ Goto("SpinEventLoop")
                 /\ req_wrap_queue' \in SUBSET Reqs
                 /\ handle_wrap_queue' \in SUBSET Handles
  /\ UNCHANGED <<build_snapshot, debug_mksnapshot, spinResult, registered, out, result,
                 openAtSerialization, pendingAfterDrain, codecVars, bindVars>>

\* Mutant: an absent result of SpinEventLoop counts as exit code 0.
SpinEventLoop_DefaultZero ==
  /\ pc = "SpinEventLoop"
  /\ calls' = Append(calls, "SpinEventLoop")
  /\ \E m \in MaybeInts, thrown \in BOOLEAN :
       LET exit_code == FromMaybe(m, 0)
           caught == bootstrapCatch \/ thrown
       IN /\ spinResult' = m
          /\ bootstrapCatch' = caught
          /\ req_wrap_queue' \in SUBSET Reqs
          /\ handle_wrap_queue' \in SUBSET Handles
          /\ pendingAfterDrain' = handle_wrap_queue'
          /\ IF exit_code # 0
               THEN err' = err /\ Abort(177)
               ELSE IF caught
                 THEN /\ err' = Append(err, Dump("PrintCaughtException", 179, {}))
                      /\ Abort(180)
                 ELSE err' = err /\ Goto("PrintAllBaseObjects")
  /\ UNCHANGED <<build_snapshot, debug_mksnapshot, registered, out, result,
                 openAtSerialization, codecVars, bindVars>>

\* Mutant: an exception caught after the drain is printed, and the run goes on.
SpinEventLoop_NoAbortOnCaught ==
  /\ pc = "SpinEventLoop"
  /\ calls' = Append(calls, "SpinEventLoop")
  /\ \E m \in MaybeInts, thrown \in BOOLEAN :
       LET exit_code == FromMaybe(m, 1)
           caught == bootstrapCatch \/ thrown
       IN /\ spinResult' = m
          /\ bootstrapCatch' = caught
          /\ req_wrap_queue' \in SUBSET Reqs
          /\ handle_wrap_queue' \in SUBSET Handles
          /\ pendingAfterDrain' = handle_wrap_queue'
          /\ IF exit_code # 0
               THEN err' = err /\ Abort(177)
               ELSE IF caught
                 THEN /\ err' = Append(err, Dump("PrintCaughtException", 179, {}))
                      /\ Goto("PrintAllBaseObjects")
                 ELSE err' = err /\ Goto("PrintAllBaseObjects")
  /\ UNCHANGED <<build_snapshot, debug_mksnapshot, registered, out, result,
                 openAtSerialization, codecVars, bindVars>>

\* SpinEventLoop(env).FromMaybe(1), CHECK_EQ(exit_code, 0), then the same
\* TryCatch is asked again: a caught exception is printed, then abort().
SpinEventLoop ==
  /\ pc = "SpinEventLoop"
  /\ calls' = Append(calls, "SpinEventLoop")
  /\ \E m \in MaybeInts, thrown \in BOOLEAN :
       LET exit_code == FromMaybe(m, 1)
           caught == bootstrapCatch \/ thrown
       IN /\ spinResult' = m
          /\ bootstrapCatch' = caught
          /\ req_wrap_queue' \in SUBSET Reqs
          /\ handle_wrap_queue' \in SUBSET Handles
          /\ pendingAfterDrain' = handle_wrap_queue'
          /\ IF exit_code # 0
               THEN err' = err /\ Abort(177)
               ELSE IF caught
                 THEN /\ err' = Append(err, Dump("PrintCaughtException", 179, {}))
                      /\ Abort(180)
                 ELSE err' = err /\ Goto("PrintAllBaseObjects")
  /\ UNCHANGED <<build_snapshot, debug_mksnapshot, registered, out, result,
                 openAtSerialization, codecVars, bindVars>>

\* The MKSNAPSHOT debug print of the base objects.
PrintAllBaseObjects ==
  /\ pc = "PrintAllBaseObjects"
  /\ calls' = calls
  /\ err' = IF debug_mksnapshot THEN Append(err, Dump("PrintAllBaseObjects", 185, {}))
                                ELSE err
  /\ Goto("Serialize")
  /\ UNCHANGED <<build_snapshot, debug_mksnapshot, spinResult, registered, req_wrap_queue,
                 handle_wrap_queue, bootstrapCatch, out, result,
                 openAtSerialization, pendingAfterDrain, codecVars, bindVars>>

AnyOpen == req_wrap_queue # {} \/ handle_wrap_queue # {}

\* Mutant: after env->Serialize the run goes straight to CreateBlob.
Serialize_SkipsAddContext ==
  /\ pc = "Serialize"
  /\ calls' = Append(calls, "env->Serialize")
  /\ openAtSerialization' = (openAtSerialization \/ AnyOpen)
  /\ \E e \in EnvInfos : out' = [out EXCEPT !.env_info = e]
  /\ Goto("CreateBlob")
  /\ UNCHANGED <<build_snapshot, debug_mksnapshot, spinResult, registered, req_wrap_queue,
                 handle_wrap_queue, bootstrapCatch, err, result,
                 pendingAfterDrain, codecVars, bindVars>>

\* out->env_info = env->Serialize(&creator)
Serialize ==
  /\ pc = "Serialize"
  /\ calls' = Append(calls, "env->Serialize")
  /\ openAtSerialization' = (openAtSerialization \/ AnyOpen)
  /\ \E e \in EnvInfos : out' = [out EXCEPT !.env_info = e]
  /\ Goto("AddContext")
  /\ UNCHANGED <<build_snapshot, debug_mksnapshot, spinResult, registered, req_wrap_queue,
                 handle_wrap_queue, bootstrapCatch, err, result,
                 pendingAfterDrain, codecVars, bindVars>>

\* creator.AddContext and CHECK_EQ(index, NodeMainInstance::kNodeContextIndex).
AddContext ==
  /\ pc = "AddContext"
  /\ calls' = Append(calls, "AddContext")
  /\ openAtSerialization' = (openAtSerialization \/ AnyOpen)
  /\ \E index \in {0, 1} :
       IF index = kNodeContextIndex THEN Goto("CreateBlob") ELSE Abort(194)
  /\ UNCHANGED <<build_snapshot, debug_mksnapshot, spinResult, registered, req_wrap_queue,
                 handle_wrap_queue, bootstrapCatch, err, out, result,
                 pendingAfterDrain, codecVars, bindVars>>

\* out->blob = creator.CreateBlob(...). Creating the blob triggers a GC that
\* closes the handles that can be closed (comment of lines 205-207).
CreateBlob ==
  /\ pc = "CreateBlob"
  /\ calls' = Append(calls, "CreateBlob")
  /\ openAtSerialization' = (openAtSerialization \/ AnyOpen)
  /\ \E b \in Blobs : out' = [out EXCEPT !.blob = b]
  /\ \E closed \in SUBSET handle_wrap_queue :
       handle_wrap_queue' = handle_wrap_queue \ closed
  /\ Goto("CanBeRehashed")
  /\ UNCHANGED <<build_snapshot, debug_mksnapshot, spinResult, registered, req_wrap_queue,
                 bootstrapCatch, err, result, pendingAfterDrain,
                 codecVars, bindVars>>

\* Mutant: the check is passed over while a wrap queue is non-empty.
CanBeRehashed_SkippedWhenOpen ==
  /\ pc = "CanBeRehashed"
  /\ calls' = Append(calls, "CanBeRehashed")
  /\ IF out.blob.rehashable \/ AnyOpen
       THEN Goto("PrintLibuvHandleInformation")
       ELSE Abort(203)
  /\ UNCHANGED <<build_snapshot, debug_mksnapshot, spinResult, registered, req_wrap_queue,
                 handle_wrap_queue, bootstrapCatch, err, out, result,
                 openAtSerialization, pendingAfterDrain, codecVars, bindVars>>

\* CHECK(out->blob.CanBeRehashed())
CanBeRehashed ==
  /\ pc = "CanBeRehashed"
  /\ calls' = Append(calls, "CanBeRehashed")
  /\ IF out.blob.rehashable THEN Goto("PrintLibuvHandleInformation") ELSE Abort(203)
  /\ UNCHANGED <<build_snapshot, debug_mksnapshot, spinResult, registered, req_wrap_queue,
                 handle_wrap_queue, bootstrapCatch, err, out, result,
                 openAtSerialization, pendingAfterDrain, codecVars, bindVars>>

\* Mutant: the diagnostic is printed in debug mode only.
PrintLibuvHandleInformation_DebugOnly ==
  /\ pc = "PrintLibuvHandleInformation"
  /\ calls' = calls
  /\ err' = IF debug_mksnapshot
              THEN Append(err, Dump("PrintLibuvHandleInformation", 211,
                                    handle_wrap_queue))
              ELSE err
  /\ Goto("CheckQueues")
  /\ UNCHANGED <<build_snapshot, debug_mksnapshot, spinResult, registered, req_wrap_queue,
                 handle_wrap_queue, bootstrapCatch, out, result,
                 openAtSerialization, pendingAfterDrain, codecVars, bindVars>>

\* The outstanding-resource diagnostic of lines 208-212.
PrintLibuvHandleInformation ==
  /\ pc = "PrintLibuvHandleInformation"
  /\ calls' = calls
  /\ err' = IF AnyOpen \/ debug_mksnapshot
              THEN Append(err, Dump("PrintLibuvHandleInformation", 211,
                                    handle_wrap_queue))
              ELSE err
  /\ Goto("CheckQueues")
  /\ UNCHANGED <<build_snapshot, debug_mksnapshot, spinResult, registered, req_wrap_queue,
                 handle_wrap_queue, bootstrapCatch, out, result,
                 openAtSerialization, pendingAfterDrain, codecVars, bindVars>>

\* Mutant: only the request queue is checked.
CheckQueues_ReqOnly ==
  /\ pc = "CheckQueues"
  /\ calls' = Append(calls, "CHECK(wrap queues)")
  /\ IF req_wrap_queue # {} THEN Abort(213) ELSE Goto("FreeEnvironment")
  /\ UNCHANGED <<build_snapshot, debug_mksnapshot, spinResult, registered, req_wrap_queue,
                 handle_wrap_queue, bootstrapCatch, err, out, result,
                 openAtSerialization, pendingAfterDrain, codecVars, bindVars>>

\* CHECK(env->req_wrap_queue()->IsEmpty()); CHECK(env->handle_wrap_queue()->IsEmpty())
CheckQueues ==
  /\ pc = "CheckQueues"
  /\ calls' = Append(calls, "CHECK(wrap queues)")
  /\ IF req_wrap_queue # {} THEN Abort(213)
     ELSE IF handle_wrap_queue # {} THEN Abort(214)
     ELSE Goto("FreeEnvironment")
  /\ UNCHANGED <<build_snapshot, debug_mksnapshot, spinResult, registered, req_wrap_queue,
                 handle_wrap_queue, bootstrapCatch, err, out, result,
                 openAtSerialization, pendingAfterDrain, codecVars, bindVars>>

\* FreeEnvironment(env); main_instance->Dispose()
FreeEnvironment ==
  /\ pc = "FreeEnvironment"
  /\ calls' = calls \o <<"FreeEnvironment", "main_instance->Dispose", "~SnapshotCreator">>
  /\ Goto("UnregisterIsolate")
  /\ UNCHANGED <<build_snapshot, debug_mksnapshot, spinResult, registered, req_wrap_queue,
                 handle_wrap_queue, bootstrapCatch, err, out, result,
                 openAtSerialization, pendingAfterDrain, codecVars, bindVars>>

\* Mutant: the isolate is left registered with the platform.
UnregisterIsolate_Skipped ==
  /\ pc = "UnregisterIsolate"
  /\ calls' = Append(calls, "UnregisterIsolate")
  /\ registered' = registered
  /\ Goto("FormatBlob")
  /\ UNCHANGED <<build_snapshot, debug_mksnapshot, spinResult, req_wrap_queue, handle_wrap_queue,
                 bootstrapCatch, err, out, result, openAtSerialization,
                 pendingAfterDrain, codecVars, bindVars>>

\* Platform()->UnregisterIsolate(isolate); the void overload returns.
UnregisterIsolate ==
  /\ pc = "UnregisterIsolate"
  /\ calls' = Append(calls, "UnregisterIsolate")
  /\ registered' = registered - 1
  /\ Goto("FormatBlob")
  /\ UNCHANGED <<build_snapshot, debug_mksnapshot, spinResult, req_wrap_queue, handle_wrap_queue,
                 bootstrapCatch, err, out, result, openAtSerialization,
                 pendingAfterDrain, codecVars, bindVars>>

\* The string overload: result = FormatBlob(&data); delete[] data.blob.data.
ReturnFormatBlob ==
  /\ pc = "FormatBlob"
  /\ calls' = Append(calls, "FormatBlob")
  /\ result' = FormatBlob(out)
  /\ out' = [out EXCEPT !.blob = [@ EXCEPT !.data = Unset]]
  /\ Goto("returned")
  /\ UNCHANGED <<build_snapshot, debug_mksnapshot, spinResult, registered, req_wrap_queue,
                 handle_wrap_queue, bootstrapCatch, err, openAtSerialization,
                 pendingAfterDrain, codecVars, bindVars>>

InitGenerate ==
  /\ pc = "Allocate"
  /\ build_snapshot \in BOOLEAN
  /\ debug_mksnapshot \in BOOLEAN
  /\ registered = 0
  /\ req_wrap_queue = {}
  /\ handle_wrap_queue = {}
  /\ bootstrapCatch = FALSE
  /\ err = <<>>
  /\ abortAt = 0
  /\ out = [isolate_data_indices |-> Unset, env_info |-> Unset, blob |-> Unset]
  /\ result = NoResult
  /\ openAtSerialization = FALSE
  /\ pendingAfterDrain = {}
  /\ spinResult = [has |-> FALSE, v |-> 0]
  /\ calls = <<>>

\* Generate is not running.
IdleGenerate ==
  /\ pc = "idle"
  /\ build_snapshot = FALSE
  /\ debug_mksnapshot = FALSE
  /\ registered = 0
  /\ req_wrap_queue = {}
  /\ handle_wrap_queue = {}
  /\ bootstrapCatch = FALSE
  /\ err = <<>>
  /\ abortAt = 0
  /\ out = [isolate_data_indices |-> Unset, env_info |-> Unset, blob |-> Unset]
  /\ result = NoResult
  /\ openAtSerialization = FALSE
  /\ pendingAfterDrain = {}
  /\ spinResult = [has |-> FALSE, v |-> 0]
  /\ calls = <<>>

IdleCodec ==
  /\ phase = "idle"
  /\ slots = <<>>
  /\ cursor = <<>>
  /\ fields = <<>>
  /\ foreign = FALSE
  /\ rslots = <<>>
  /\ deserialize_requests = <<>>
  /\ codecAbortAt = 0

IdleBinding ==
  /\ bindingKeys = <<>>
  /\ pos = 0
  /\ i = 0
  /\ info_bindings = <<>>
  /\ storeNext = 0
  /\ addDataCalls = <<>>
  /\ hookCalls = <<>>
  /\ bindAbortAt = 0
  /\ bindEvents = <<>>

Init == InitGenerate /\ IdleCodec /\ IdleBinding

Next ==
  \/ Allocate
  \/ CreateMainInstance
  \/ NewContext
  \/ NewEnvironment
  \/ RunBootstrapping
  \/ LoadEnvironment
  \/ SpinEventLoop
  \/ PrintAllBaseObjects
  \/ Serialize
  \/ AddContext
  \/ CreateBlob
  \/ CanBeRehashed
  \/ PrintLibuvHandleInformation
  \/ CheckQueues
  \/ FreeEnvironment
  \/ UnregisterIsolate
  \/ ReturnFormatBlob

Spec == Init /\ [][Next]_vars


\* ==================================================== internal-field codec
\* The SERIALIZABLE_OBJECT_TYPES list: one entry per snapshotable type.
SERIALIZABLE_OBJECT_TYPES ==
  {[PropertyName |-> "fs_binding_data", NativeTypeName |-> "fs::BindingData",
    type_name |-> "node::fs::BindingData"],
   [PropertyName |-> "v8_binding_data", NativeTypeName |-> "v8_utils::BindingData",
    type_name |-> "node::v8_utils::BindingData"]}

\* The EmbedderObjectType enumerators, and a tag that is none of them.
RegisteredTags == {t.PropertyName : t \in SERIALIZABLE_OBJECT_TYPES}
UnknownTag == "0xFFFFFFFF"

Holders == 1..NumHolders
Fields == 0..(NumFields - 1)

\* What a holder's kSlot field points to: nothing, or a SnapshotableObject of a
\* registered type whose Serialize reports an InternalFieldInfo of some length.
NullPtr == [type |-> "nullptr", length |-> 0]
IsNull(ptr) == ptr.type = "nullptr"
Objects == [type : RegisteredTags, length : 0..MaxLen]

\* obj->Serialize(index): the InternalFieldInfo of the object for that field,
\* tagged with the object's own type.
ObjSerialize(obj, holder, index) ==
  [type |-> obj.type, length |-> obj.length, owner |-> holder, field |-> index]

NullInfo == [type |-> "none", length |-> 0, owner |-> 0, field |-> 0]

\* InternalFieldInfo::Copy: a fresh copy of the same bytes.
Copy(info) ==
  [type |-> info.type, length |-> info.length, owner |-> info.owner,
   field |-> info.field]

\* static_cast<int>(size_t) for the lengths of the model, all below 2^31.
StaticCastInt(n) == n

\* Mutant: the size reported is one more than info->length.
SerializeNodeContextInternalFields_SizePlusOne(holder, index) ==
  LET ptr == slots[holder]
  IN IF IsNull(ptr)
       THEN [data |-> NullInfo, raw_size |-> 0]
       ELSE LET info == ObjSerialize(ptr, holder, index)
            IN [data |-> info, raw_size |-> StaticCastInt(info.length) + 1]

\* SerializeNodeContextInternalFields: the StartupData returned for one
\* internal field of a holder.
SerializeNodeContextInternalFields(holder, index) ==
  LET ptr == slots[holder]
  IN IF IsNull(ptr)
       THEN [data |-> NullInfo, raw_size |-> 0]
       ELSE LET info == ObjSerialize(ptr, holder, index)
            IN [data |-> info, raw_size |-> StaticCastInt(info.length)]

\* The function a registered tag dispatches to: NativeTypeName::Deserialize.
DeserializeOf(tag) ==
  LET t == CHOOSE x \in SERIALIZABLE_OBJECT_TYPES : x.PropertyName = tag
  IN [native |-> t.NativeTypeName, fn |-> "Deserialize"]

\* Mutant: a zero-size payload returns without touching the slot.
DeserializeNodeInternalFields_SkipsEmpty(holder, index, payload) ==
  IF payload.raw_size = 0
    THEN UNCHANGED <<rslots, deserialize_requests, codecAbortAt>>
    ELSE IF payload.data.type \in RegisteredTags
      THEN /\ deserialize_requests' =
                Append(deserialize_requests,
                       [cb |-> DeserializeOf(payload.data.type), holder |-> holder,
                        index |-> index, info |-> Copy(payload.data)])
           /\ UNCHANGED <<rslots, codecAbortAt>>
      ELSE /\ codecAbortAt' = 295
           /\ UNCHANGED <<rslots, deserialize_requests>>

\* Mutant: the request is enqueued for BaseObject::kSlot, not for the field
\* the payload belongs to.
DeserializeNodeInternalFields_WrongIndex(holder, index, payload) ==
  IF payload.raw_size = 0
    THEN /\ rslots' = [rslots EXCEPT ![holder][index] = NULL]
         /\ UNCHANGED <<deserialize_requests, codecAbortAt>>
    ELSE IF payload.data.type \in RegisteredTags
      THEN /\ deserialize_requests' =
                Append(deserialize_requests,
                       [cb |-> DeserializeOf(payload.data.type), holder |-> holder,
                        index |-> kSlot, info |-> Copy(payload.data)])
           /\ UNCHANGED <<rslots, codecAbortAt>>
      ELSE /\ codecAbortAt' = 295
           /\ UNCHANGED <<rslots, deserialize_requests>>

\* Mutant: the default case breaks out of the switch instead of UNREACHABLE().
DeserializeNodeInternalFields_DefaultBreaks(holder, index, payload) ==
  IF payload.raw_size = 0
    THEN /\ rslots' = [rslots EXCEPT ![holder][index] = NULL]
         /\ UNCHANGED <<deserialize_requests, codecAbortAt>>
    ELSE IF payload.data.type \in RegisteredTags
      THEN /\ deserialize_requests' =
                Append(deserialize_requests,
                       [cb |-> DeserializeOf(payload.data.type), holder |-> holder,
                        index |-> index, info |-> Copy(payload.data)])
           /\ UNCHANGED <<rslots, codecAbortAt>>
      ELSE UNCHANGED <<rslots, deserialize_requests, codecAbortAt>>

\* Mutant: the request is put at the head of the queue.
DeserializeNodeInternalFields_EnqueuesAtFront(holder, index, payload) ==
  IF payload.raw_size = 0
    THEN /\ rslots' = [rslots EXCEPT ![holder][index] = NULL]
         /\ UNCHANGED <<deserialize_requests, codecAbortAt>>
    ELSE IF payload.data.type \in RegisteredTags
      THEN /\ deserialize_requests' =
                <<[cb |-> DeserializeOf(payload.data.type), holder |-> holder,
                   index |-> index, info |-> Copy(payload.data)]>>
                \o deserialize_requests
           /\ UNCHANGED <<rslots, codecAbortAt>>
      ELSE /\ codecAbortAt' = 295
           /\ UNCHANGED <<rslots, deserialize_requests>>

\* DeserializeNodeInternalFields: a zero-size payload sets the field to
\* nullptr and returns; otherwise the switch on info->type enqueues a request
\* for a registered type, and its default case is UNREACHABLE() (line 295).
DeserializeNodeInternalFields(holder, index, payload) ==
  IF payload.raw_size = 0
    THEN /\ rslots' = [rslots EXCEPT ![holder][index] = NULL]
         /\ UNCHANGED <<deserialize_requests, codecAbortAt>>
    ELSE IF payload.data.type \in RegisteredTags
      THEN /\ deserialize_requests' =
                Append(deserialize_requests,
                       [cb |-> DeserializeOf(payload.data.type), holder |-> holder,
                        index |-> index, info |-> Copy(payload.data)])
           /\ UNCHANGED <<rslots, codecAbortAt>>
      ELSE /\ codecAbortAt' = 295
           /\ UNCHANGED <<rslots, deserialize_requests>>

\* The engine visits the internal fields holder by holder, field by field.
NumVisits == NumHolders * NumFields
VisitAt(k) == [holder |-> ((k - 1) \div NumFields) + 1, index |-> (k - 1) % NumFields]

\* Build: the engine calls the serialize callback for the next internal field
\* and keeps what it returns.
SerializeField ==
  /\ phase = "build"
  /\ cursor <= NumVisits
  /\ LET v == VisitAt(cursor)
     IN fields' = Append(fields,
                         [holder |-> v.holder, index |-> v.index,
                          payload |-> SerializeNodeContextInternalFields(v.holder, v.index)])
  /\ IF cursor = NumVisits
       THEN phase' = "restore" /\ cursor' = 1
       ELSE phase' = phase /\ cursor' = cursor + 1
  /\ UNCHANGED <<slots, foreign, rslots, deserialize_requests, codecAbortAt,
                 genVars, bindVars>>

\* Restore: the engine calls the deserialize callback with the next stored
\* payload; a fatal exit stops the pass at that payload.
DeserializeField ==
  /\ phase = "restore"
  /\ cursor <= Len(fields)
  /\ LET e == fields[cursor]
     IN DeserializeNodeInternalFields(e.holder, e.index, e.payload)
  /\ IF codecAbortAt' # 0
       THEN phase' = "fatal" /\ cursor' = cursor
       ELSE phase' = phase /\ cursor' = cursor + 1
  /\ UNCHANGED <<slots, fields, foreign, genVars, bindVars>>

Uninitialized == "uninitialized"

\* The payloads a blob from another build can hold.
ForeignPayloads ==
  {[data |-> NullInfo, raw_size |-> 0]} \cup
  {[data |-> [type |-> t, length |-> MaxLen, owner |-> 0, field |-> 0],
    raw_size |-> MaxLen] : t \in RegisteredTags \cup {UnknownTag}}

ForeignBlobs ==
  SeqsUpTo([holder : Holders, index : Fields, payload : ForeignPayloads], MaxForeign)

\* Either a build pass followed by the restore of what it produced, or the
\* restore of a blob produced by another build.
InitCodec ==
  /\ cursor = 1
  /\ rslots = [h \in Holders |-> [f \in Fields |-> Uninitialized]]
  /\ deserialize_requests = <<>>
  /\ codecAbortAt = 0
  /\ \/ /\ foreign = FALSE
        /\ phase = "build"
        /\ slots \in [Holders -> {NullPtr} \cup Objects]
        /\ fields = <<>>
     \/ /\ foreign = TRUE
        /\ phase = "restore"
        /\ slots = [h \in Holders |-> NullPtr]
        /\ fields \in ForeignBlobs

NextCodec == SerializeField \/ DeserializeField

CodecInit == InitCodec /\ IdleGenerate /\ IdleBinding

SpecCodec == CodecInit /\ [][NextCodec]_vars

\* =================================================== SerializeBindingData
\* The keys a binding can be registered under: the type names of the
\* snapshotable types, and the type name of a binding that is not snapshotable.
UnregisteredKey == "node::http_parser::BindingData"
BindingKeys == {t.type_name : t \in SERIALIZABLE_OBJECT_TYPES} \cup {UnregisteredKey}

\* IsSnapshotableType: the key is the type_name of an entry of the list.
IsSnapshotableType(key) == \E t \in SERIALIZABLE_OBJECT_TYPES : key = t.type_name

\* The extra data PrepareForSerialization may add to the store.
HookData == {0, 1}

\* One thing SerializeBindingData (or its caller) did, and for which binding.
BindingEvent(op, binding) == [op |-> op, binding |-> binding]

\* Mutant: the record is built as {name, index, i}.
VisitBinding_SwapsFields ==
  /\ bindAbortAt = 0
  /\ pos <= Len(bindingKeys)
  /\ LET key == bindingKeys[pos]
     IN IF IsSnapshotableType(key)
          THEN \E extra \in HookData :
                 LET index == storeNext
                 IN /\ addDataCalls' = Append(addDataCalls,
                                              [binding |-> pos, index |-> index])
                    /\ info_bindings' = Append(info_bindings,
                                               [name |-> key, id |-> index, index |-> i])
                    /\ hookCalls' = Append(hookCalls, pos)
                    /\ storeNext' = storeNext + 1 + extra
                    /\ i' = i + 1
                    /\ pos' = pos + 1
                    /\ bindAbortAt' = bindAbortAt
                    /\ bindEvents' = bindEvents \o
                         <<BindingEvent("IsSnapshotableType", pos),
                           BindingEvent("AddData", pos),
                           BindingEvent("push_back", pos),
                           BindingEvent("PrepareForSerialization", pos)>>
          ELSE /\ bindAbortAt' = 346
               /\ bindEvents' = Append(bindEvents, BindingEvent("IsSnapshotableType", pos))
               /\ UNCHANGED <<pos, i, info_bindings, storeNext, addDataCalls, hookCalls>>
  /\ UNCHANGED <<bindingKeys, genVars, codecVars>>

\* Mutant: a binding that is not snapshotable is skipped.
VisitBinding_SkipsUnregistered ==
  /\ bindAbortAt = 0
  /\ pos <= Len(bindingKeys)
  /\ LET key == bindingKeys[pos]
     IN IF IsSnapshotableType(key)
          THEN \E extra \in HookData :
                 LET index == storeNext
                 IN /\ addDataCalls' = Append(addDataCalls,
                                              [binding |-> pos, index |-> index])
                    /\ info_bindings' = Append(info_bindings,
                                               [name |-> key, id |-> i, index |-> index])
                    /\ hookCalls' = Append(hookCalls, pos)
                    /\ storeNext' = storeNext + 1 + extra
                    /\ i' = i + 1
                    /\ pos' = pos + 1
                    /\ bindAbortAt' = bindAbortAt
                    /\ bindEvents' = bindEvents \o
                         <<BindingEvent("IsSnapshotableType", pos),
                           BindingEvent("AddData", pos),
                           BindingEvent("push_back", pos),
                           BindingEvent("PrepareForSerialization", pos)>>
          ELSE /\ i' = i + 1
               /\ bindEvents' = Append(bindEvents, BindingEvent("IsSnapshotableType", pos))
               /\ pos' = pos + 1
               /\ UNCHANGED <<bindAbortAt, info_bindings, storeNext, addDataCalls,
                              hookCalls>>
  /\ UNCHANGED <<bindingKeys, genVars, codecVars>>

\* Mutant: PrepareForSerialization runs before AddData is asked for the index.
VisitBinding_HookFirst ==
  /\ bindAbortAt = 0
  /\ pos <= Len(bindingKeys)
  /\ LET key == bindingKeys[pos]
     IN IF IsSnapshotableType(key)
          THEN \E extra \in HookData :
                 LET index == storeNext + extra
                 IN /\ addDataCalls' = Append(addDataCalls,
                                              [binding |-> pos, index |-> index])
                    /\ info_bindings' = Append(info_bindings,
                                               [name |-> key, id |-> i, index |-> index])
                    /\ hookCalls' = Append(hookCalls, pos)
                    /\ storeNext' = storeNext + 1 + extra
                    /\ i' = i + 1
                    /\ pos' = pos + 1
                    /\ bindAbortAt' = bindAbortAt
                    /\ bindEvents' = bindEvents \o
                         <<BindingEvent("IsSnapshotableType", pos),
                           BindingEvent("PrepareForSerialization", pos),
                           BindingEvent("AddData", pos),
                           BindingEvent("push_back", pos)>>
          ELSE /\ bindAbortAt' = 346
               /\ bindEvents' = Append(bindEvents, BindingEvent("IsSnapshotableType", pos))
               /\ UNCHANGED <<pos, i, info_bindings, storeNext, addDataCalls, hookCalls>>
  /\ UNCHANGED <<bindingKeys, genVars, codecVars>>

\* One call of the lambda ForEachBindingData runs for the next binding: for a
\* snapshotable key AddData returns the store's next index, the record
\* {key, i, index} is pushed, PrepareForSerialization runs (and may add data of
\* its own to the store), i++; any other key is UNREACHABLE() (line 346).
VisitBinding ==
  /\ bindAbortAt = 0
  /\ pos <= Len(bindingKeys)
  /\ LET key == bindingKeys[pos]
     IN IF IsSnapshotableType(key)
          THEN \E extra \in HookData :
                 LET index == storeNext
                 IN /\ addDataCalls' = Append(addDataCalls,
                                              [binding |-> pos, index |-> index])
                    /\ info_bindings' = Append(info_bindings,
                                               [name |-> key, id |-> i, index |-> index])
                    /\ hookCalls' = Append(hookCalls, pos)
                    /\ storeNext' = storeNext + 1 + extra
                    /\ i' = i + 1
                    /\ pos' = pos + 1
                    /\ bindAbortAt' = bindAbortAt
                    /\ bindEvents' = bindEvents \o
                         <<BindingEvent("IsSnapshotableType", pos),
                           BindingEvent("AddData", pos),
                           BindingEvent("push_back", pos),
                           BindingEvent("PrepareForSerialization", pos)>>
          ELSE /\ bindAbortAt' = 346
               /\ bindEvents' = Append(bindEvents, BindingEvent("IsSnapshotableType", pos))
               /\ UNCHANGED <<pos, i, info_bindings, storeNext, addDataCalls, hookCalls>>
  /\ UNCHANGED <<bindingKeys, genVars, codecVars>>

\* SerializeBindingData is entered with i = 0 and an empty info->bindings; the
\* store already holds the data added before it.
InitBinding ==
  /\ bindingKeys \in SeqsUpTo(BindingKeys, MaxBindings)
  /\ pos = 1
  /\ i = 0
  /\ info_bindings = <<>>
  /\ storeNext \in 0..MaxStore
  /\ addDataCalls = <<>>
  /\ hookCalls = <<>>
  /\ bindAbortAt = 0
  /\ bindEvents = <<>>

\* SerializeBindingData has returned to env->Serialize (line 190); Generate
\* then goes on to creator.CreateBlob (lines 198-199).
CreateBlobAfterBindings ==
  /\ bindAbortAt = 0
  /\ pos > Len(bindingKeys)
  /\ \A k \in 1..Len(bindEvents) : bindEvents[k].op # "CreateBlob"
  /\ bindEvents' = Append(bindEvents, BindingEvent("CreateBlob", 0))
  /\ UNCHANGED <<bindingKeys, pos, i, info_bindings, storeNext, addDataCalls,
                 hookCalls, bindAbortAt, genVars, codecVars>>

BindingInit == InitBinding /\ IdleGenerate /\ IdleCodec

NextBinding == VisitBinding \/ CreateBlobAfterBindings

SpecBinding == BindingInit /\ [][NextBinding]_vars

\* ===================================================== claims on Generate
\* The calls Generate has made so far, how often, and in which order.
Called == {calls[k] : k \in 1..Len(calls)}
CallCount(c) == Cardinality({k \in 1..Len(calls) : calls[k] = c})
Precedes(a, b) ==
  \A j, k \in 1..Len(calls) : (calls[j] = a /\ calls[k] = b) => j < k
Terminated == pc \in {"aborted", "returned"}
PastQueueCheck == pc \in {"FreeEnvironment", "UnregisterIsolate", "FormatBlob", "returned"}
Printed(fn, lines) == \E k \in 1..Len(err) : err[k].fn = fn /\ err[k].line \in lines
LastPrinted(fn) == err # <<>> /\ err[Len(err)].fn = fn
PendingWorkViolation == pc = "aborted" /\ abortAt \in {213, 214}

\* C1 as stated: a run in which a wrap queue was non-empty while env->Serialize,
\* AddContext or CreateBlob ran never returns an artifact.
C1_OpenAtSerializationNeverEmits ==
  openAtSerialization => result = NoResult

\* C1 as amended: a run in which a wrap queue is non-empty once CreateBlob has
\* returned, when the CHECKs of lines 213-214 run, aborts there: it never gets
\* past them and never returns an artifact.
C1_OpenAfterCreateBlobNeverEmits ==
  /\ (PastQueueCheck \/ result # NoResult) => ~AnyOpen
  /\ result # NoResult => pc = "returned"
  /\ pc = "aborted" => result = NoResult

C1_Witness ==
  /\ pc = "aborted"
  /\ abortAt = 214
  /\ handle_wrap_queue # {}
  /\ result = NoResult

\* C2: an artifact is returned only by a run in which no step failed (no
\* exception was caught during per-context setup, bootstrap, the entry point or
\* the drain, the blob can be rehashed, both wrap queues are empty), and a run
\* that ends without an artifact ended in an abort.
C2_AllOrNothing ==
  /\ result # NoResult =>
       /\ ~Printed("PrintCaughtException", {129, 149, 170, 179})
       /\ out.blob.rehashable
       /\ ~AnyOpen
       /\ abortAt = 0
  /\ (Terminated /\ result = NoResult) => pc = "aborted"

\* C9: an exception caught while the preparation scripts run (NewContext,
\* RunBootstrapping) ends the run in an abort, and a bootstrap abort is always
\* preceded by the PrintCaughtException dump.
C9_BootstrapFailureIsFatal ==
  /\ Printed("PrintCaughtException", {129, 149}) =>
       pc = "aborted" /\ abortAt \in {130, 151}
  /\ (pc = "aborted" /\ abortAt \in {130, 151}) => LastPrinted("PrintCaughtException")

\* C10 as stated: a run whose drain returned with a handle still pending ends
\* in a PendingWorkViolation, after a PrintLibuvHandleInformation dump that
\* reports that handle.
C10_PendingTimerFailsWithDiagnostic ==
  (Terminated /\ pendingAfterDrain # {}) =>
    /\ PendingWorkViolation
    /\ \E k \in 1..Len(err) :
         /\ err[k].fn = "PrintLibuvHandleInformation"
         /\ pendingAfterDrain \subseteq err[k].handles

\* C10 as amended: a handle that was pending when the drain returned and is
\* still in handle_wrap_queue when the wrap-queue check is reached makes the
\* run end there in a PendingWorkViolation, and the PrintLibuvHandleInformation
\* dump reporting that handle is the last thing printed before the abort.
C10_StillPendingAtCheckFails ==
  /\ \A h \in pendingAfterDrain \cap handle_wrap_queue :
       (pc = "CheckQueues" \/ PastQueueCheck \/ PendingWorkViolation) =>
         /\ ~PastQueueCheck
         /\ LastPrinted("PrintLibuvHandleInformation")
         /\ h \in err[Len(err)].handles
  /\ PendingWorkViolation => LastPrinted("PrintLibuvHandleInformation")

C10_Witness ==
  /\ PendingWorkViolation
  /\ abortAt = 214
  /\ pendingAfterDrain \cap handle_wrap_queue # {}
  /\ LastPrinted("PrintLibuvHandleInformation")
  /\ pendingAfterDrain \cap handle_wrap_queue \subseteq err[Len(err)].handles


\* ============================================== claims on the field codec
RestoreDone == phase = "restore" /\ cursor > Len(fields)
RequestsFor(h, f) ==
  {k \in 1..Len(deserialize_requests) :
     deserialize_requests[k].holder = h /\ deserialize_requests[k].index = f}
RestoredAsNoObject(h, f) == rslots[h][f] = NULL /\ RequestsFor(h, f) = {}
RestoredAsObject(h, f) ==
  /\ Cardinality(RequestsFor(h, f)) = 1
  /\ \A k \in RequestsFor(h, f) :
       /\ deserialize_requests[k].cb = DeserializeOf(slots[h].type)
       /\ deserialize_requests[k].info = ObjSerialize(slots[h], h, f)

\* C3 as stated: after a build pass and the restore of what it returned, every
\* field of a holder without an object is nullptr with no request queued, and
\* every field of a holder with an object of type T, whatever its payload, has
\* exactly one request, naming T's Deserialize, the holder, the field and a copy
\* of the InternalFieldInfo.
C3_RoundTrip ==
  (~foreign /\ RestoreDone) =>
    \A h \in Holders, f \in Fields :
      IF IsNull(slots[h]) THEN RestoredAsNoObject(h, f) ELSE RestoredAsObject(h, f)

\* C3 as amended: the round trip holds for a holder without an object and for
\* an object whose InternalFieldInfo has a non-zero length; an object whose
\* InternalFieldInfo has length 0 is restored as a holder without an object is.
C3_RoundTripNonEmpty ==
  (~foreign /\ RestoreDone) =>
    \A h \in Holders, f \in Fields :
      IF IsNull(slots[h]) \/ StaticCastInt(slots[h].length) = 0
        THEN RestoredAsNoObject(h, f)
        ELSE RestoredAsObject(h, f)

C3_Witness ==
  /\ ~foreign
  /\ RestoreDone
  /\ \E h \in Holders : ~IsNull(slots[h]) /\ slots[h].length > 0
  /\ \E h \in Holders : IsNull(slots[h])
  /\ deserialize_requests # <<>>

\* C4 as stated: a field of a holder whose object serializes to an
\* InternalFieldInfo of length 0 is restored to a state that differs from the
\* restored state of a field without an object (nullptr, nothing queued).
C4_EmptyPayloadDistinctFromNoObject ==
  (~foreign /\ RestoreDone) =>
    \A h \in Holders, f \in Fields :
      (~IsNull(slots[h]) /\ slots[h].length = 0) => ~RestoredAsNoObject(h, f)

\* C4 as amended: a field of a holder whose object serializes to an
\* InternalFieldInfo of length 0 is restored exactly as a field without an
\* object: nullptr, with no reconstruction request queued.
C4_EmptyPayloadRestoredAsNoObject ==
  (~foreign /\ RestoreDone) =>
    \A h \in Holders, f \in Fields :
      (~IsNull(slots[h]) /\ slots[h].length = 0) => RestoredAsNoObject(h, f)

C4_Witness ==
  /\ ~foreign
  /\ RestoreDone
  /\ \E h \in Holders :
       /\ ~IsNull(slots[h])
       /\ slots[h].length = 0
       /\ \A f \in Fields : RestoredAsNoObject(h, f)

\* C5: a call of DeserializeNodeInternalFields with a payload of size 0 leaves
\* the request queue as it was, sets the field to nullptr and is not fatal.
C5_EmptyPayloadNullsSlot ==
  [][(phase = "restore" /\ cursor <= Len(fields)
        /\ fields[cursor].payload.raw_size = 0) =>
       /\ deserialize_requests' = deserialize_requests
       /\ rslots'[fields[cursor].holder][fields[cursor].index] = NULL
       /\ codecAbortAt' = 0]_vars

C5_Witness ==
  /\ phase = "restore"
  /\ cursor > 1
  /\ fields[cursor - 1].payload.raw_size = 0
  /\ rslots[fields[cursor - 1].holder][fields[cursor - 1].index] = NULL
  /\ deserialize_requests # <<>>

BootstrapFailureLines == {130, 151}
HasUnknownTag(e) == e.payload.raw_size # 0 /\ e.payload.data.type \notin RegisteredTags

\* C6: a non-empty payload with an unregistered tag stops the restore pass
\* fatally at that payload: no payload with an unknown tag is ever passed over,
\* nothing is queued for it, its field is not set, no later payload is
\* delivered, and the exit (UNREACHABLE, line 295) is not a bootstrap failure.
C6_UnknownTagIsFatal ==
  /\ \A k \in 1..Len(fields) :
       (phase \in {"restore", "fatal"} /\ k < cursor) => ~HasUnknownTag(fields[k])
  /\ phase = "fatal" =>
       /\ HasUnknownTag(fields[cursor])
       /\ codecAbortAt = 295
       /\ codecAbortAt \notin BootstrapFailureLines
       /\ Len(deserialize_requests) =
            Cardinality({k \in 1..(cursor - 1) : fields[k].payload.raw_size # 0})
       /\ rslots[fields[cursor].holder][fields[cursor].index] = NULL =>
            \E k \in 1..(cursor - 1) :
              /\ fields[k].holder = fields[cursor].holder
              /\ fields[k].index = fields[cursor].index
              /\ fields[k].payload.raw_size = 0
       /\ ~ENABLED NextCodec

C6_Witness ==
  /\ phase = "fatal"
  /\ cursor < Len(fields)
  /\ fields[cursor].payload.data.type = UnknownTag


\* ======================================== claims on SerializeBindingData
BindingDone == bindAbortAt = 0 /\ pos > Len(bindingKeys)

\* C7: once SerializeBindingData has completed, info->bindings holds one
\* record per enumerated binding, in enumeration order, the k-th with the k-th
\* binding's name, the ordinal k counted from 0 and the index AddData returned
\* for that binding; the ordinals are strictly increasing along the list.
C7_BindingsInOrder ==
  BindingDone =>
    /\ Len(info_bindings) = Len(bindingKeys)
    /\ Len(addDataCalls) = Len(bindingKeys)
    /\ \A k \in 1..Len(bindingKeys) :
         /\ info_bindings[k].name = bindingKeys[k]
         /\ info_bindings[k].id = k - 1
         /\ addDataCalls[k].binding = k
         /\ info_bindings[k].index = addDataCalls[k].index
    /\ \A j, k \in 1..Len(info_bindings) :
         j < k => info_bindings[j].id < info_bindings[k].id

C7_Witness ==
  /\ BindingDone
  /\ Len(bindingKeys) >= 2
  /\ info_bindings[1].index > 0
  /\ info_bindings[2].index > info_bindings[1].index + 1
  /\ info_bindings[2].id = 1

\* C8: a binding whose key is not snapshotable stops SerializeBindingData
\* fatally at that binding: no such binding is ever passed over, AddData is not
\* called for it, no record is pushed for it, its PrepareForSerialization does
\* not run, and no later binding is visited.
C8_UnregisteredBindingIsFatal ==
  /\ \A k \in 1..Len(bindingKeys) : k < pos => IsSnapshotableType(bindingKeys[k])
  /\ bindAbortAt # 0 =>
       /\ bindAbortAt = 346
       /\ ~IsSnapshotableType(bindingKeys[pos])
       /\ Len(info_bindings) = pos - 1
       /\ Len(addDataCalls) = pos - 1
       /\ \A k \in 1..Len(addDataCalls) : addDataCalls[k].binding # pos
       /\ Len(hookCalls) = pos - 1
       /\ \A k \in 1..Len(hookCalls) : hookCalls[k] # pos
       /\ ~ENABLED NextBinding

C8_Witness ==
  /\ bindAbortAt = 346
  /\ pos > 1
  /\ pos < Len(bindingKeys)
  /\ Len(info_bindings) = pos - 1

\* The calls of a run of Generate that returns, in source order (lines 97-222
\* and the FormatBlob of line 230).
StepsOfSuccessfulRun(build) ==
  <<"Isolate::Allocate", "RegisterIsolate", "SnapshotCreator",
    "NodeMainInstance::Create", "SetDefaultContext", "isolate_data()->Serialize",
    "NewContext", "new Environment", "RunBootstrapping">>
  \o (IF build THEN <<"LoadEnvironment", "SpinEventLoop">> ELSE <<>>)
  \o <<"env->Serialize", "AddContext", "CreateBlob", "CanBeRehashed",
       "CHECK(wrap queues)", "FreeEnvironment", "main_instance->Dispose",
       "~SnapshotCreator", "UnregisterIsolate", "FormatBlob">>

\* C11: the rehash check is never bypassed. Once CreateBlob has produced a
\* blob, a run gets to the wrap-queue diagnostic, to FreeEnvironment or to a
\* returned artifact only after CanBeRehashed was checked, once, after
\* CreateBlob, on a blob that can be rehashed; a blob that cannot be rehashed
\* stops the run at line 203, before anything else is printed or freed,
\* whatever the build mode, the debug setting and the wrap queues are.
C11_RehashCheckNeverBypassed ==
  "CreateBlob" \in Called =>
    /\ (pc \notin {"CanBeRehashed", "aborted"} \/ result # NoResult
          \/ "FreeEnvironment" \in Called
          \/ Printed("PrintLibuvHandleInformation", {211})) =>
         /\ out.blob.rehashable
         /\ CallCount("CanBeRehashed") = 1
         /\ Precedes("CreateBlob", "CanBeRehashed")
         /\ Precedes("CanBeRehashed", "FreeEnvironment")
    /\ ~out.blob.rehashable =>
         /\ pc \in {"CanBeRehashed", "aborted"}
         /\ pc = "aborted" =>
              /\ abortAt = 203
              /\ "CanBeRehashed" \in Called
              /\ "CHECK(wrap queues)" \notin Called
         /\ result = NoResult

C11_Witness ==
  /\ pc = "aborted"
  /\ abortAt = 203
  /\ build_snapshot
  /\ debug_mksnapshot
  /\ req_wrap_queue # {}
  /\ handle_wrap_queue # {}
  /\ ~out.blob.rehashable

\* The decimal numeral of an integer, digit by digit.
RECURSIVE Numeral(_)
Numeral(n) ==
  LET digit(d) == <<"0", "1", "2", "3", "4", "5", "6", "7", "8", "9">>[d + 1]
  IN IF n < 0 THEN "-" \o Numeral(-n)
     ELSE IF n < 10 THEN digit(n)
     ELSE Numeral(n \div 10) \o digit(n % 10)

\* C13: FormatBlob renders the blob byte for byte, for every length including
\* 0: after the text that opens blob_data come exactly raw_size entries, the
\* i-th being the decimal numeral of the i-th byte (followed by ',' or, for the
\* last, a newline); then the blob_size constant, which is the numeral of
\* raw_size; and the isolate_data_indices list holds the numerals of the same
\* elements in the same order.
C13_ByteForByteFidelity ==
  pc = "formatted" =>
    LET data == out.blob.data
        n == out.blob.raw_size
        idx == out.isolate_data_indices
        m == Len(idx)
        sep(k, size) == IF k = size THEN "\n" ELSE ","
    IN /\ Len(result) = 1 + 2 * n + 3 + 2 * m + 3
       /\ \A k \in 1..n : /\ result[2 * k] = Numeral(data[k])
                          /\ result[2 * k + 1] = sep(k, n)
       /\ result[2 * n + 2] = "};\n\nstatic const int blob_size = "
       /\ result[2 * n + 3] = Numeral(n)
       /\ \A k \in 1..m : /\ result[2 * n + 4 + 2 * k - 1] = Numeral(idx[k])
                          /\ result[2 * n + 4 + 2 * k] = sep(k, m)
       /\ result[2 * n + 4 + 2 * m + 2] = out.env_info
       /\ \A j, k \in 1..n : data[j] # data[k] => result[2 * j] # result[2 * k]

C13_Witness ==
  /\ pc = "formatted"
  /\ out.blob.data = <<-1, 65>>
  /\ out.isolate_data_indices = <<2, 0>>
  /\ result[2] = "-1"
  /\ result[4] = "65"
  /\ result[7] = "2"

\* The fields for which the build pass called Serialize on the object of
\* holder h: the visited fields whose payload is that object's InternalFieldInfo.
SerializeCallsOn(h) ==
  {k \in 1..Len(fields) : fields[k].payload.data.owner = h}

\* C14: once the build pass has visited every internal field of every holder,
\* Serialize has been called exactly one time on the object of each holder
\* that has one, however many internal fields the holder has.
C14_SerializedExactlyOnce ==
  (~foreign /\ phase = "restore") =>
    \A h \in Holders : ~IsNull(slots[h]) => Cardinality(SerializeCallsOn(h)) = 1

\* The calls of DeserializeNodeInternalFields that have returned so far, in
\* order, and those among them that had a non-empty payload.
ReturnedCalls ==
  IF phase \in {"restore", "fatal"} THEN SubSeq(fields, 1, cursor - 1) ELSE <<>>
NonEmptyCalls ==
  LET nonEmpty(e) == e.payload.raw_size # 0
  IN SelectSeq(ReturnedCalls, nonEmpty)

\* C15: decoded requests are queued, in discovery order, and never applied by
\* the decoder: after any number of calls the queue holds one request per call
\* that had a non-empty payload with a registered tag, in the order of those
\* calls, each naming that call's holder, index, a copy of its info and the
\* Deserialize function of its tag; and no internal field has been given an
\* object by the decoder (a field is untouched or nullptr).
C15_RequestsQueuedInDiscoveryOrder ==
  /\ Len(deserialize_requests) = Len(NonEmptyCalls)
  /\ \A k \in 1..Len(NonEmptyCalls) :
       LET e == NonEmptyCalls[k]
       IN /\ e.payload.data.type \in RegisteredTags
          /\ deserialize_requests[k] =
               [cb |-> DeserializeOf(e.payload.data.type), holder |-> e.holder,
                index |-> e.index, info |-> Copy(e.payload.data)]
  /\ \A h \in Holders, f \in Fields : rslots[h][f] \in {Uninitialized, NULL}

C15_Witness ==
  /\ RestoreDone
  /\ Len(deserialize_requests) >= 2
  /\ Len(deserialize_requests) < Len(fields)
  /\ deserialize_requests[1] # deserialize_requests[2]
  /\ deserialize_requests[1].index < deserialize_requests[2].index

\* C16: a run of Generate that returns an artifact made each of its steps
\* exactly once and in this order: default context, isolate data, context and
\* environment, bootstrap, (build mode only) entry point and drain,
\* env->Serialize, AddContext, CreateBlob, the rehash check, the wrap-queue
\* checks, FreeEnvironment, Dispose; and the indices, env_info and blob it
\* formats were all recorded by then.
C16_StepsInOrder ==
  pc = "returned" =>
    /\ calls = StepsOfSuccessfulRun(build_snapshot)
    /\ \A c \in Called : CallCount(c) = 1
    /\ Precedes("isolate_data()->Serialize", "RunBootstrapping")
    /\ Precedes("env->Serialize", "AddContext")
    /\ Precedes("AddContext", "CreateBlob")
    /\ out.isolate_data_indices \in IndexLists
    /\ out.env_info \in EnvInfos

C16_Witness ==
  /\ pc = "returned"
  /\ build_snapshot
  /\ "LoadEnvironment" \in Called
  /\ "SpinEventLoop" \in Called
  /\ Len(calls) = 21

\* Where in the trace of SerializeBindingData an operation on a binding is.
EventsOf(op, b) == {k \in 1..Len(bindEvents) : bindEvents[k] = BindingEvent(op, b)}
EventBefore(op1, b1, op2, b2) ==
  \A j \in EventsOf(op1, b1), k \in EventsOf(op2, b2) : j < k

\* C17: for every binding SerializeBindingData has processed, the registration
\* check, AddData and PrepareForSerialization each ran once and in that order;
\* the hook ran after the binding's index was obtained and recorded, before
\* the next binding's AddData and before CreateBlob. A binding that fails the
\* registration check gets neither AddData nor the hook.
C17_CheckThenAddDataThenHook ==
  /\ \A b \in 1..(pos - 1) :
       /\ Cardinality(EventsOf("IsSnapshotableType", b)) = 1
       /\ Cardinality(EventsOf("AddData", b)) = 1
       /\ Cardinality(EventsOf("PrepareForSerialization", b)) = 1
       /\ Cardinality({k \in 1..Len(hookCalls) : hookCalls[k] = b}) = 1
       /\ EventBefore("IsSnapshotableType", b, "AddData", b)
       /\ EventBefore("AddData", b, "push_back", b)
       /\ EventBefore("push_back", b, "PrepareForSerialization", b)
       /\ EventBefore("PrepareForSerialization", b, "AddData", b + 1)
       /\ EventBefore("PrepareForSerialization", b, "CreateBlob", 0)
       /\ info_bindings[b].index = addDataCalls[b].index
  /\ \A b \in 1..Len(bindingKeys) :
       b >= pos => /\ EventsOf("AddData", b) = {}
                   /\ EventsOf("PrepareForSerialization", b) = {}
  /\ EventsOf("CreateBlob", 0) # {} => BindingDone

C17_Witness ==
  /\ BindingDone
  /\ Len(bindingKeys) >= 2
  /\ hookCalls = <<1, 2>>
  /\ addDataCalls[2].index > addDataCalls[1].index + 1
  /\ EventsOf("CreateBlob", 0) = {Len(bindEvents)}

\* C18: the entry point and the drain are governed by build_snapshot alone.
\* Without it neither LoadEnvironment nor SpinEventLoop is ever called. With
\* it, a run that gets to env->Serialize or AddContext has called
\* LoadEnvironment, then SpinEventLoop, once each and before both, and the
\* drain returned 0; a drain that returned anything else, an absent result
\* included, ended the run at the check of line 177.
C18_BuildModeGovernsEntryPointAndDrain ==
  /\ ~build_snapshot =>
       /\ "LoadEnvironment" \notin Called
       /\ "SpinEventLoop" \notin Called
       /\ pc \notin {"LoadEnvironment", "SpinEventLoop"}
  /\ (build_snapshot /\ (pc \in {"PrintAllBaseObjects", "Serialize"}
                          \/ "env->Serialize" \in Called
                          \/ "AddContext" \in Called)) =>
       /\ CallCount("LoadEnvironment") = 1
       /\ CallCount("SpinEventLoop") = 1
       /\ Precedes("LoadEnvironment", "SpinEventLoop")
       /\ Precedes("SpinEventLoop", "env->Serialize")
       /\ Precedes("SpinEventLoop", "AddContext")
       /\ spinResult = [has |-> TRUE, v |-> 0]
  /\ ("SpinEventLoop" \in Called /\ spinResult # [has |-> TRUE, v |-> 0]) =>
       /\ pc = "aborted"
       /\ abortAt = 177
       /\ "env->Serialize" \notin Called

C18_Witness ==
  /\ build_snapshot
  /\ pc = "aborted"
  /\ abortAt = 177
  /\ "SpinEventLoop" \in Called
  /\ ~spinResult.has

\* C19: one runtime instance per call. A run never has more than one isolate
\* allocated or registered; a run that returns allocated and registered one
\* isolate, created one main instance, freed the environment, then disposed
\* the main instance, then left the scope of the snapshot creator, then
\* unregistered the isolate, each once, and leaves no isolate registered; a run
\* that stops anywhere else stopped in a fatal exit of the process.
C19_OneInstancePerCall ==
  /\ registered \in {0, 1}
  /\ CallCount("Isolate::Allocate") <= 1
  /\ CallCount("RegisterIsolate") <= 1
  /\ CallCount("UnregisterIsolate") <= 1
  /\ registered = CallCount("RegisterIsolate") - CallCount("UnregisterIsolate")
  /\ pc = "returned" =>
       /\ \A c \in {"Isolate::Allocate", "RegisterIsolate", "SnapshotCreator",
                    "NodeMainInstance::Create", "FreeEnvironment",
                    "main_instance->Dispose", "~SnapshotCreator",
                    "UnregisterIsolate"} : CallCount(c) = 1
       /\ Precedes("Isolate::Allocate", "NodeMainInstance::Create")
       /\ Precedes("SnapshotCreator", "FreeEnvironment")
       /\ Precedes("FreeEnvironment", "main_instance->Dispose")
       /\ Precedes("main_instance->Dispose", "~SnapshotCreator")
       /\ Precedes("~SnapshotCreator", "UnregisterIsolate")
       /\ registered = 0
  /\ (pc # "returned" /\ ~ENABLED Next) => (pc = "aborted" /\ abortAt # 0)
  /\ pc = "aborted" => (result = NoResult /\ ~ENABLED Next)

C19_Witness ==
  /\ pc = "returned"
  /\ ~build_snapshot
  /\ registered = 0
  /\ CallCount("RegisterIsolate") = 1
  /\ CallCount("UnregisterIsolate") = 1

\* C20: in build-snapshot mode an exception caught by the TryCatch of lines
\* 163-181, while the entry point ran or while the event loop was drained,
\* never lets the run reach env->Serialize: the run is still before the drain's
\* checks or it has aborted at line 172, 177 or 180, and with a value from
\* LoadEnvironment and exit code 0 it aborted at 180 after the dump of 179.
\* A non-zero exit code aborts at 177 with the dump of 179 not printed.
C20_CaughtExceptionAbortsBeforeSerialization ==
  /\ bootstrapCatch =>
       /\ build_snapshot
       /\ pc \in {"SpinEventLoop", "aborted"}
       /\ pc = "aborted" => abortAt \in {172, 177, 180}
       /\ "env->Serialize" \notin Called
       /\ result = NoResult
  /\ (bootstrapCatch /\ "SpinEventLoop" \in Called
        /\ spinResult = [has |-> TRUE, v |-> 0]) =>
       /\ pc = "aborted"
       /\ abortAt = 180
       /\ LastPrinted("PrintCaughtException")
       /\ err[Len(err)].line = 179
  /\ (pc = "aborted" /\ abortAt = 177) =>
       /\ spinResult # [has |-> TRUE, v |-> 0]
       /\ ~Printed("PrintCaughtException", {179})

C20_Witness ==
  /\ pc = "aborted"
  /\ abortAt = 180
  /\ spinResult = [has |-> TRUE, v |-> 0]
  /\ Printed("PrintCaughtException", {170})
  /\ Printed("PrintCaughtException", {179})

====
